---- MODULE Spec2Model ----
(***************************************************************************)
(* MedCare Hospital Management (src/recomand.py): a Streamlit script.  The *)
(* script is re-executed top to bottom on every user interaction; a button *)
(* is True only in the execution its click triggered; a widget that an     *)
(* execution does not render loses its state; st.rerun() aborts the        *)
(* execution and starts another one with no button pressed.                *)
(*                                                                         *)
(* Text is a sequence of one-character strings, so that strip() and LIKE   *)
(* are computed character by character.                                    *)
(***************************************************************************)
EXTENDS Integers, Sequences, FiniteSets, TLC

VARIABLES
    logged_in,     \* st.session_state.logged_in
    page,          \* value of the sidebar radio "Main Modules" ("Login" when logged out)
    patients,      \* rows of table patients, in rowid order
    seq,           \* AUTOINCREMENT counter of table patients (largest id ever used)
    doctors,       \* rows of table doctors
    staff,         \* rows of table staff
    mode,          \* value of the radio "Action" on the patients page
    search,        \* value of the text input "Search name or phone"
    addForm,       \* values of the Add New form widgets
    choice,        \* value of the selectbox "Select patient" (a label)
    options,       \* labels the selectbox was rendered with (its identity)
    confirm,       \* stored value of the checkbox "Confirm permanent deletion"
    confirmShown,  \* the checkbox is on screen, so the user can click it
    listing,       \* rows shown by the List & Search tab
    lastEvent,     \* the user interaction handled last
    emitted,       \* messages emitted while handling it, over all executions
    screen,        \* messages still visible after the final execution
    runs           \* one record per script execution that handled it

vars == <<logged_in, page, patients, seq, doctors, staff, mode, search, addForm,
          choice, options, confirm, confirmShown, listing, lastEvent, emitted,
          screen, runs>>

----------------------------------------------------------------------------
(* Bounds *)

\* Largest patient id the model lets AUTOINCREMENT hand out.
MaxId == 2

----------------------------------------------------------------------------
(* Text helpers *)

UpperAlpha == <<"A","B","C","D","E","F","G","H","I","J","K","L","M",
                "N","O","P","Q","R","S","T","U","V","W","X","Y","Z">>
LowerAlpha == <<"a","b","c","d","e","f","g","h","i","j","k","l","m",
                "n","o","p","q","r","s","t","u","v","w","x","y","z">>

LowerOf == [c \in {UpperAlpha[i] : i \in 1..26} |->
              LowerAlpha[CHOOSE i \in 1..26 : UpperAlpha[i] = c]]

\* SQLite's LIKE folds the ASCII letters only.
Fold(c) == IF c \in DOMAIN LowerOf THEN LowerOf[c] ELSE c

\* Characters str.strip() removes (those a text input can hold).
Whitespace == {" ", "\t", "\n"}

RECURSIVE LStrip(_)
LStrip(s) ==
    IF s # <<>> /\ Head(s) \in Whitespace THEN LStrip(Tail(s)) ELSE s

RECURSIVE RStrip(_)
RStrip(s) ==
    IF s # <<>> /\ s[Len(s)] \in Whitespace
    THEN RStrip(SubSeq(s, 1, Len(s) - 1))
    ELSE s

\* username.strip()
Strip(s) == RStrip(LStrip(s))

\* SQLite LIKE: % matches any run of characters, _ any one character,
\* every other character matches itself up to ASCII case.
RECURSIVE Like(_, _)
Like(pat, txt) ==
    IF pat = <<>> THEN txt = <<>>
    ELSE IF Head(pat) = "%"
         THEN Like(Tail(pat), txt) \/ (txt # <<>> /\ Like(pat, Tail(txt)))
         ELSE /\ txt # <<>>
              /\ (Head(pat) = "_" \/ Fold(Head(pat)) = Fold(Head(txt)))
              /\ Like(Tail(pat), Tail(txt))

\* f"%{search}%"
LikeParam(s) == <<"%">> \o s \o <<"%">>

\* Python truthiness of a str
Truthy(s) == s # <<>>

----------------------------------------------------------------------------
(* The store: table patients (the UNIQUE phone column, AUTOINCREMENT ids) *)

NULL == "NULL"

\* One row of patients as INSERT builds it: dob is never supplied, created_at
\* is CURRENT_TIMESTAMP, represented by the ordinal of the insert.
Row(id, fn, ln, ph, g, b) ==
    [id |-> id, first_name |-> fn, last_name |-> ln, phone |-> ph,
     gender |-> g, dob |-> NULL, blood_type |-> b, created_at |-> id]

\* phone TEXT UNIQUE: another row already holds this phone
PhoneTaken(rows, ph, self) ==
    \E i \in 1..Len(rows) : rows[i].phone = ph /\ rows[i].id # self

DbError == [kind |-> "error",
            text |-> "Database error: UNIQUE constraint failed: patients.phone"]

\* run_query(INSERT ..., commit=True): an exception becomes an st.error and
\* the function returns None, as it does on success.
InsertPatient(rows, sq, f) ==
    IF PhoneTaken(rows, f.ph, 0)
    THEN [rows |-> rows, seq |-> sq, msgs |-> <<DbError>>]
    ELSE [rows |-> Append(rows, Row(sq + 1, f.fn, f.ln, f.ph, f.g, f.b)),
          seq  |-> sq + 1, msgs |-> <<>>]

\* run_query(UPDATE ... WHERE id=?, commit=True)
UpdatePatient(rows, pid, e) ==
    IF PhoneTaken(rows, e.ph, pid)
    THEN [rows |-> rows, msgs |-> <<DbError>>]
    ELSE [rows |-> [i \in 1..Len(rows) |->
                      IF rows[i].id = pid
                      THEN [rows[i] EXCEPT !.first_name = e.fn, !.last_name = e.ln,
                                           !.phone = e.ph, !.gender = e.g,
                                           !.blood_type = e.b]
                      ELSE rows[i]],
          msgs |-> <<>>]

\* run_query("DELETE FROM patients WHERE id = ?", commit=True)
DeletePatient(rows, pid) ==
    SelectSeq(rows, LAMBDA r : r.id # pid)

\* SearchMatches without the phone column in the WHERE clause
SearchMatchesNames(r, s) ==
    \/ Like(LikeParam(s), r.first_name)
    \/ Like(LikeParam(s), r.last_name)

\* The WHERE clause of the list query
SearchMatches(r, s) ==
    \/ Like(LikeParam(s), r.first_name)
    \/ Like(LikeParam(s), r.last_name)
    \/ Like(LikeParam(s), r.phone)

\* q = "SELECT * FROM patients", narrowed by the WHERE clause "if search:"
SearchPatients(rows, s) ==
    IF Truthy(s) THEN SelectSeq(rows, LAMBDA r : SearchMatches(r, s)) ELSE rows

\* first_name || ' ' || last_name || ' (' || phone || ')'
LabelOf(r) ==
    r.first_name \o <<" ">> \o r.last_name \o <<" ", "(">> \o r.phone \o <<")">>

Labels(rows) == [i \in 1..Len(rows) |-> LabelOf(rows[i])]

\* patients[patients['label'] == choice]['id'].iloc[0]
PidOf(rows, ch) ==
    rows[CHOOSE i \in 1..Len(rows) :
            /\ LabelOf(rows[i]) = ch
            /\ \A j \in 1..(i - 1) : LabelOf(rows[j]) # ch].id

RowOf(rows, pid) == rows[CHOOSE i \in 1..Len(rows) : rows[i].id = pid]

HasRow(rows, pid) == \E i \in 1..Len(rows) : rows[i].id = pid

----------------------------------------------------------------------------
(* Widgets *)

Pages == <<"Dashboard", "Patients (full CRUD)", "Doctors (full CRUD)",
           "Staff (full CRUD)", "Appointments", "Lab & Investigations",
           "Pharmacy Inventory", "Departments", "Reports">>

PatientsPage == "Patients (full CRUD)"

\* The two labels the Doctors & Staff branch compares the page with; each
\* starts with an emoji (written here as a bracketed name) that no entry of
\* Pages carries.
DoctorStaffLabels == {"[man health worker] Doctors (full CRUD)",
                      "[woman health worker] Staff (full CRUD)"}

AddGenders  == <<"", "Male", "Female", "Other">>
AddBloods   == <<"", "A+", "A-", "B+", "B-", "O+", "O-", "AB+", "AB-">>
EditGenders == <<"Male", "Female", "Other">>
EditBloods  == <<"A+", "A-", "B+", "B-", "O+", "O-", "AB+", "AB-">>

Range(q) == {q[i] : i \in 1..Len(q)}

EmptyForm == [fn |-> <<>>, ln |-> <<>>, ph |-> <<>>, g |-> AddGenders[1],
              b |-> AddBloods[1]]

NoChoice == <<>>

\* A selectbox keeps its value while it is rendered with the same options;
\* rendered with other options it is a new widget showing options[0].
SelectValue(ch, oldOpts, newOpts) ==
    IF newOpts = <<>> THEN NoChoice
    ELSE IF oldOpts = newOpts /\ ch \in Range(newOpts) THEN ch
    ELSE newOpts[1]

\* index=0 if pd.isna(p['gender']) else ["Male","Female","Other"].index(p['gender'])
\* list.index raises ValueError for a value that is not in the list.
GenderIndexRaises(g) == g # NULL /\ g \notin Range(EditGenders)

GenderDefault(g) == IF g = NULL THEN EditGenders[1] ELSE g

\* index=0
BloodDefault(b) == EditBloods[1]

----------------------------------------------------------------------------
(* One execution of the script *)

Msg(kind, text) == [kind |-> kind, text |-> text]

\* init_db(): runs at the top of every execution
InitDb == <<"CREATE TABLE IF NOT EXISTS patients",
            "CREATE TABLE IF NOT EXISTS doctors",
            "CREATE TABLE IF NOT EXISTS staff">>

Admin    == <<"a", "d", "m", "i", "n">>
Admin123 == <<"a", "d", "m", "i", "n", "1", "2", "3">>

\* CredentialsOk without the password comparison
CredentialsOkAnyPassword(u, p) == Strip(u) = Admin

\* username.strip() == "admin" and password == "admin123"
CredentialsOk(u, p) == Strip(u) = Admin /\ p = Admin123

\* StopsAtLogin without the st.stop()
NeverStops(lg) == FALSE

\* "if not st.session_state.logged_in: ... st.stop()"
StopsAtLogin(lg) == ~lg

\* The if / elif chain on page
PageBranch(pg) ==
    IF pg = "Dashboard" THEN "dashboard"
    ELSE IF pg = PatientsPage THEN "patients"
    ELSE IF pg \in DoctorStaffLabels THEN "doctors_staff"
    ELSE "placeholder"

Blank == [views |-> {}, stmts |-> <<>>, msgs |-> <<>>, exception |-> "none",
          listing |-> <<>>, choice |-> NoChoice, options |-> <<>>]

\* Tab "List & Search"
ListTab(rows, srch) ==
    LET found == SearchPatients(rows, srch)
    IN  [Blank EXCEPT
           !.views   = {"PatientList"},
           !.stmts   = <<"SELECT patients">>,
           !.listing = found,
           !.msgs    = IF found = <<>>
                       THEN <<Msg("info", IF Truthy(srch) THEN "No patients found"
                                                          ELSE "No patients yet")>>
                       ELSE <<>>]

\* Tab "Manage (Add/Edit/Delete)" up to its buttons
ManageTab(rows, md, ch, opts) ==
    IF md = "Add New" THEN [Blank EXCEPT !.views = {"AddForm"}]
    ELSE IF rows = <<>>
    THEN [Blank EXCEPT !.stmts = <<"SELECT labels">>,
                       !.msgs  = <<Msg("info", "No patients yet")>>]
    ELSE LET sel == SelectValue(ch, opts, Labels(rows))
             p   == RowOf(rows, PidOf(rows, sel))
             got == [Blank EXCEPT !.stmts   = <<"SELECT labels", "SELECT patient by id">>,
                                  !.choice  = sel,
                                  !.options = Labels(rows)]
         IN  IF GenderIndexRaises(p.gender)
             THEN [got EXCEPT !.views = {"SelectPatient"}, !.exception = "ValueError"]
             ELSE [got EXCEPT !.views = {"SelectPatient", "EditForm"}]

Join(a, b) ==
    [views     |-> a.views \cup b.views,
     stmts     |-> a.stmts \o b.stmts,
     msgs      |-> a.msgs \o b.msgs,
     exception |-> b.exception,
     listing   |-> a.listing,
     choice    |-> b.choice,
     options   |-> b.options]

\* Everything below the title "MedCare Hospital -> {page}"
MainArea(pg, rows, md, srch, ch, opts) ==
    LET br == PageBranch(pg)
    IN  IF br = "dashboard"
        THEN [Blank EXCEPT !.views = {"Dashboard"},
                           !.stmts = <<"SELECT COUNT patients", "SELECT COUNT doctors",
                                       "SELECT COUNT staff">>]
        ELSE IF br = "patients"
        THEN Join(ListTab(rows, srch), ManageTab(rows, md, ch, opts))
        ELSE IF br = "doctors_staff"
        THEN [Blank EXCEPT !.views = {"ResourceList"},
                           !.stmts = <<"SELECT doctors or staff ORDER BY name">>,
                           !.msgs  = <<Msg("info", "Full CRUD pattern is ready.")>>]
        ELSE [Blank EXCEPT !.views = {"Placeholder"},
                           !.msgs  = <<Msg("success", pg),
                                       Msg("info", "This module is prepared for implementation.")>>]

\* An execution in which no button is pressed, or the part of any execution
\* that precedes the pressed button's handler.  loginMsgs are the messages of
\* the login form's button.
Execution(lg, pg, rows, md, srch, ch, opts, loginMsgs) ==
    LET top == [Blank EXCEPT !.views = IF lg THEN {} ELSE {"LoginForm"},
                             !.stmts = InitDb,
                             !.msgs  = loginMsgs]
    IN  IF StopsAtLogin(lg) THEN top
        ELSE LET m == MainArea(pg, rows, md, srch, ch, opts)
             IN  [Join(top, m) EXCEPT !.listing = m.listing]

\* What an execution leaves in runs
RunOf(x, start, end) ==
    [start |-> start, end |-> end, views |-> x.views, stmts |-> x.stmts,
     exception |-> x.exception]

\* A button handler's statements and messages, after the widgets above it
Handled(x, stmts, msgs) ==
    [x EXCEPT !.stmts = x.stmts \o stmts, !.msgs = x.msgs \o msgs]

----------------------------------------------------------------------------
(* What the user types and picks *)

Digits == <<"1", "2", "3", "4", "5", "6", "7", "8", "9">>

\* One phone number per id the model can hand out
Phone(i) == <<Digits[i]>>

UsernameInputs == {Admin, <<" ">> \o Admin \o <<"\t">>,
                   <<"a", " ", "d", "m", "i", "n">>, <<"A", "d", "m", "i", "n">>}

PasswordInputs == {Admin123, Admin123 \o <<" ">>}

\* Forms with every required field filled: gender and blood group left
\* unset or both picked, the phone one already stored or the next new one
\* (n numbers are in use).
FilledForms(n) ==
    {[fn |-> <<"a">>, ln |-> <<"b">>, ph |-> Phone(i), g |-> gb[1], b |-> gb[2]] :
        i \in 1..(IF n < MaxId THEN n + 1 ELSE MaxId),
        gb \in {<<"", "">>, <<"Male", "O+">>}}

OneFilled == [fn |-> <<"a">>, ln |-> <<"b">>, ph |-> Phone(1), g |-> "Male", b |-> "O+"]

AddInputs(n) ==
    FilledForms(n) \cup {[OneFilled EXCEPT !.fn = <<>>], [OneFilled EXCEPT !.ln = <<>>],
                         [OneFilled EXCEPT !.ph = <<>>]}

SearchInputs == {<<>>, <<"1">>}

\* The edit form opens with the stored texts, the stored gender and the first
\* blood group; the user may retype the first name or the phone and pick
\* another blood group.
EditInputs(p) ==
    {[fn |-> f, ln |-> p.last_name, ph |-> h, g |-> GenderDefault(p.gender), b |-> b] :
        f \in {p.first_name, <<>>, <<"c">>},
        h \in {p.phone, Phone(1)},
        b \in {BloodDefault(p.blood_type), "O+"}}

----------------------------------------------------------------------------
(* State *)

Event(type, arg) == [type |-> type, arg |-> arg]

\* What handling an interaction leaves behind: xs are its executions (the
\* second one is the st.rerun()), rs their records.
Outcome(ev, rs, xs) ==
    /\ lastEvent' = ev
    /\ runs'      = rs
    /\ emitted'   = IF Len(xs) = 1 THEN xs[1].msgs ELSE xs[1].msgs \o xs[2].msgs
    /\ screen'    = xs[Len(xs)].msgs
    /\ listing'   = xs[Len(xs)].listing
    /\ choice'    = xs[Len(xs)].choice
    /\ options'   = xs[Len(xs)].options

\* The first execution of a session against a new hospital.db
Init ==
    LET x == Execution(FALSE, "Login", <<>>, "Add New", <<>>, NoChoice, <<>>, <<>>)
    IN  /\ logged_in = FALSE
        /\ page = "Login"
        /\ patients = <<>>
        /\ seq = 0
        /\ doctors = <<>>
        /\ staff = <<>>
        /\ mode = "Add New"
        /\ search = <<>>
        /\ addForm = EmptyForm
        /\ choice = NoChoice
        /\ options = <<>>
        /\ confirm = FALSE
        /\ confirmShown = FALSE
        /\ listing = <<>>
        /\ lastEvent = Event("open", <<>>)
        /\ emitted = <<>>
        /\ screen = <<>>
        /\ runs = <<RunOf(x, FALSE, FALSE)>>

\* Widgets of the patients page that an execution did not render are new the
\* next time they are rendered.
FreshPatientWidgets ==
    /\ mode' = "Add New"
    /\ search' = <<>>
    /\ addForm' = EmptyForm

NoCheckbox == confirm' = FALSE /\ confirmShown' = FALSE

----------------------------------------------------------------------------
(* Login screen and sidebar *)

\* Button "Login"
Login(u, p) ==
    /\ ~logged_in
    /\ LET ok == CredentialsOk(u, p)
           x1 == IF ok
                 THEN [Blank EXCEPT !.views = {"LoginForm"}, !.stmts = InitDb,
                                    !.msgs = <<Msg("success", "Login successful!")>>]
                 ELSE Execution(FALSE, "Login", patients, "Add New", <<>>, NoChoice, <<>>,
                                <<Msg("error", "Invalid credentials"),
                                  Msg("info", "Use: admin / admin123")>>)
           x2 == Execution(TRUE, Pages[1], patients, "Add New", <<>>, NoChoice, <<>>, <<>>)
       IN  /\ logged_in' = ok
           /\ page' = IF ok THEN Pages[1] ELSE "Login"
           /\ IF ok
              THEN Outcome(Event("login", <<u, p>>),
                           <<RunOf(x1, FALSE, TRUE), RunOf(x2, TRUE, TRUE)>>, <<x1, x2>>)
              ELSE Outcome(Event("login", <<u, p>>), <<RunOf(x1, FALSE, FALSE)>>, <<x1>>)
    /\ FreshPatientWidgets
    /\ NoCheckbox
    /\ UNCHANGED <<patients, seq, doctors, staff>>

\* Button "Logout" in the sidebar
Logout ==
    /\ logged_in
    /\ LET x1 == [Blank EXCEPT !.stmts = InitDb]
           x2 == Execution(FALSE, "Login", patients, "Add New", <<>>, NoChoice, <<>>, <<>>)
       IN  Outcome(Event("logout", <<>>),
                   <<RunOf(x1, TRUE, FALSE), RunOf(x2, FALSE, FALSE)>>, <<x1, x2>>)
    /\ logged_in' = FALSE
    /\ page' = "Login"
    /\ FreshPatientWidgets
    /\ NoCheckbox
    /\ UNCHANGED <<patients, seq, doctors, staff>>

\* Radio "Main Modules"
Navigate(pg) ==
    /\ logged_in
    /\ pg \in Range(Pages) /\ pg # page
    /\ LET x == Execution(TRUE, pg, patients, "Add New", <<>>, NoChoice, <<>>, <<>>)
       IN  Outcome(Event("navigate", pg), <<RunOf(x, TRUE, TRUE)>>, <<x>>)
    /\ page' = pg
    /\ FreshPatientWidgets
    /\ NoCheckbox
    /\ UNCHANGED <<logged_in, patients, seq, doctors, staff>>

----------------------------------------------------------------------------
(* Patients page *)

OnPatients == logged_in /\ page = PatientsPage

\* The edit form and its buttons were rendered by the last execution
EditFormShown == OnPatients /\ "EditForm" \in runs[Len(runs)].views

\* Radio "Action"
SetMode(m) ==
    /\ OnPatients
    /\ m \in {"Add New", "Edit / Delete"} /\ m # mode
    /\ LET x == Execution(TRUE, page, patients, m, search, NoChoice, <<>>, <<>>)
       IN  Outcome(Event("mode", m), <<RunOf(x, TRUE, TRUE)>>, <<x>>)
    /\ mode' = m
    /\ addForm' = EmptyForm
    /\ NoCheckbox
    /\ UNCHANGED <<logged_in, page, patients, seq, doctors, staff, search>>

\* Text input "Search name or phone"
Search(s) ==
    /\ OnPatients
    /\ s # search
    /\ LET x == Execution(TRUE, page, patients, mode, s, choice, options, <<>>)
       IN  Outcome(Event("search", s), <<RunOf(x, TRUE, TRUE)>>, <<x>>)
    /\ search' = s
    /\ NoCheckbox
    /\ UNCHANGED <<logged_in, page, patients, seq, doctors, staff, mode, addForm>>

\* if fn and ln and ph
RequiredFilled(f) == Truthy(f.fn) /\ Truthy(f.ln) /\ Truthy(f.ph)

\* Button "Create Patient", pressed with the Add New form holding f
CreatePatient(f) ==
    /\ OnPatients /\ mode = "Add New"
    /\ LET ins  == InsertPatient(patients, seq, f)
           base == Execution(TRUE, page, patients, mode, search, NoChoice, <<>>, <<>>)
       IN  IF RequiredFilled(f)
           THEN LET x1 == Handled(base, <<"INSERT patients">>,
                                  ins.msgs \o <<Msg("success", "Patient created!")>>)
                    x2 == Execution(TRUE, page, ins.rows, mode, search, NoChoice, <<>>, <<>>)
                IN  /\ ins.seq <= MaxId
                    /\ patients' = ins.rows
                    /\ seq' = ins.seq
                    /\ Outcome(Event("create", f),
                               <<RunOf(x1, TRUE, TRUE), RunOf(x2, TRUE, TRUE)>>, <<x1, x2>>)
           ELSE LET x1 == Handled(base, <<>>, <<Msg("warning", "Required fields missing")>>)
                IN  /\ UNCHANGED <<patients, seq>>
                    /\ Outcome(Event("create", f), <<RunOf(x1, TRUE, TRUE)>>, <<x1>>)
    /\ addForm' = f
    /\ NoCheckbox
    /\ UNCHANGED <<logged_in, page, doctors, staff, mode, search>>

\* Selectbox "Select patient"
SelectPatient(lbl) ==
    /\ OnPatients /\ mode = "Edit / Delete"
    /\ lbl \in Range(options) /\ lbl # choice
    /\ LET x == Execution(TRUE, page, patients, mode, search, lbl, options, <<>>)
       IN  Outcome(Event("select", lbl), <<RunOf(x, TRUE, TRUE)>>, <<x>>)
    /\ NoCheckbox
    /\ UNCHANGED <<logged_in, page, patients, seq, doctors, staff, mode, search, addForm>>

\* Button "Update Patient", pressed with the edit form holding e
ClickUpdate(e) ==
    /\ EditFormShown
    /\ LET pid  == PidOf(patients, choice)
           p    == RowOf(patients, pid)
           upd  == UpdatePatient(patients, pid, e)
           base == Execution(TRUE, page, patients, mode, search, choice, options, <<>>)
           x1   == Handled(base, <<"UPDATE patients">>,
                           upd.msgs \o <<Msg("success", "Updated!")>>)
           x2   == Execution(TRUE, page, upd.rows, mode, search, choice, options, <<>>)
       IN  /\ e \in EditInputs(p)
           /\ patients' = upd.rows
           /\ Outcome(Event("update", e),
                      <<RunOf(x1, TRUE, TRUE), RunOf(x2, TRUE, TRUE)>>, <<x1, x2>>)
    /\ NoCheckbox
    /\ UNCHANGED <<logged_in, page, seq, doctors, staff, mode, search, addForm>>

\* The checkbox is created inside "if st.button('Delete Patient'):", so an
\* execution renders it only when that button is the one pressed.
ConfirmRendered(deletePressed) == deletePressed

\* DeleteFires without the checkbox being consulted
DeleteFiresUnconfirmed(deletePressed, checked) == deletePressed

\* if st.button("Delete Patient"): if st.checkbox("Confirm permanent deletion"):
DeleteFires(deletePressed, checked) == deletePressed /\ checked

\* Button "Delete Patient".  The checkbox shows its stored value, or False
\* when it has none.
ClickDelete ==
    /\ EditFormShown
    /\ LET pid  == PidOf(patients, choice)
           chk  == ConfirmRendered(TRUE) /\ confirm
           base == Execution(TRUE, page, patients, mode, search, choice, options, <<>>)
       IN  IF DeleteFires(TRUE, chk)
           THEN LET rows == DeletePatient(patients, pid)
                    x1   == Handled(base, <<"DELETE patients">>,
                                    <<Msg("success", "Deleted!")>>)
                    x2   == Execution(TRUE, page, rows, mode, search, choice, options, <<>>)
                IN  /\ patients' = rows
                    /\ NoCheckbox
                    /\ Outcome(Event("delete", [pid |-> pid, checked |-> chk]),
                               <<RunOf(x1, TRUE, TRUE), RunOf(x2, TRUE, TRUE)>>, <<x1, x2>>)
           ELSE /\ UNCHANGED patients
                /\ confirm' = chk
                /\ confirmShown' = ConfirmRendered(TRUE)
                /\ Outcome(Event("delete", [pid |-> pid, checked |-> chk]),
                           <<RunOf(base, TRUE, TRUE)>>, <<base>>)
    /\ UNCHANGED <<logged_in, page, seq, doctors, staff, mode, search, addForm>>

\* The user ticks "Confirm permanent deletion".  The execution this triggers
\* has no button pressed.
ClickConfirm ==
    /\ OnPatients /\ confirmShown
    /\ LET pid  == PidOf(patients, choice)
           kept == ConfirmRendered(FALSE)
           base == Execution(TRUE, page, patients, mode, search, choice, options, <<>>)
       IN  IF DeleteFires(FALSE, kept)
           THEN LET rows == DeletePatient(patients, pid)
                    x1   == Handled(base, <<"DELETE patients">>,
                                    <<Msg("success", "Deleted!")>>)
                    x2   == Execution(TRUE, page, rows, mode, search, choice, options, <<>>)
                IN  /\ patients' = rows
                    /\ NoCheckbox
                    /\ Outcome(Event("confirm", [pid |-> pid]),
                               <<RunOf(x1, TRUE, TRUE), RunOf(x2, TRUE, TRUE)>>, <<x1, x2>>)
           ELSE /\ UNCHANGED patients
                /\ confirm' = kept
                /\ confirmShown' = kept
                /\ Outcome(Event("confirm", [pid |-> pid]),
                           <<RunOf(base, TRUE, TRUE)>>, <<base>>)
    /\ UNCHANGED <<logged_in, page, seq, doctors, staff, mode, search, addForm>>

----------------------------------------------------------------------------
(* Specification *)

Next ==
    \/ \E u \in UsernameInputs, p \in PasswordInputs : Login(u, p)
    \/ Logout
    \/ \E pg \in Range(Pages) : Navigate(pg)
    \/ \E m \in {"Add New", "Edit / Delete"} : SetMode(m)
    \/ \E s \in SearchInputs : Search(s)
    \/ \E f \in AddInputs(seq) : CreatePatient(f)
    \/ \E lbl \in Range(options) : SelectPatient(lbl)
    \/ \E e \in UNION {EditInputs(patients[i]) : i \in 1..Len(patients)} : ClickUpdate(e)
    \/ ClickDelete
    \/ ClickConfirm

Spec == Init /\ [][Next]_vars

----------------------------------------------------------------------------
(* The list query over stores holding longer texts *)

RichFirstNames == {<<"a", "1">>, <<"B">>}
RichLastNames  == {<<"b">>, <<"2">>}
RichPhones     == {<<"1", "2">>, <<"A", "2">>, <<"2", "_">>}

RichSearches == {<<"1">>, <<"2">>, <<"a">>, <<"B">>, <<"_">>, <<"%">>, <<"2", "_">>,
                 <<"1", "_">>, <<"a", "2">>, <<"3">>, <<"1", "%", "2">>}

RichRows(id) ==
    {Row(id, f, l, h, "Male", "O+") :
        f \in RichFirstNames, l \in RichLastNames, h \in RichPhones}

\* Stores that Create Patient can have built: ids 1..n, no phone twice
RECURSIVE RichStores(_)
RichStores(n) ==
    IF n = 0 THEN {<<>>}
    ELSE {Append(st, r) : st \in RichStores(n - 1), r \in RichRows(n)}

UniquePhones(rows) ==
    \A i, j \in 1..Len(rows) : i # j => rows[i].phone # rows[j].phone

\* The patients page as Navigate leaves it, over any such store
InitSearch ==
    /\ patients \in {st \in UNION {RichStores(n) : n \in 0..MaxId} : UniquePhones(st)}
    /\ LET x == Execution(TRUE, PatientsPage, patients, "Add New", <<>>, NoChoice, <<>>, <<>>)
       IN  /\ logged_in = TRUE
           /\ page = PatientsPage
           /\ seq = Len(patients)
           /\ doctors = <<>>
           /\ staff = <<>>
           /\ mode = "Add New"
           /\ search = <<>>
           /\ addForm = EmptyForm
           /\ choice = NoChoice
           /\ options = <<>>
           /\ confirm = FALSE
           /\ confirmShown = FALSE
           /\ listing = x.listing
           /\ lastEvent = Event("navigate", PatientsPage)
           /\ emitted = x.msgs
           /\ screen = x.msgs
           /\ runs = <<RunOf(x, TRUE, TRUE)>>

NextSearch == \E s \in RichSearches : Search(s)

SpecSearch == InitSearch /\ [][NextSearch]_vars

----------------------------------------------------------------------------
(* Properties *)

LastRun == runs[Len(runs)]

Executed(stmt) == \E i \in 1..Len(runs) : stmt \in Range(runs[i].stmts)

\* C1: on the Edit/Delete form with a row selected, ticking the confirmation
\* toggle and then pressing Delete runs the DELETE statement, after which the
\* row is gone and a fetch by its id returns no row.
C1_ConfirmThenDeleteRemoves ==
    [][(/\ lastEvent.type = "confirm"
        /\ lastEvent'.type = "delete"
        /\ lastEvent'.arg.pid = lastEvent.arg.pid)
       => (/\ \E i \in 1..Len(runs') : "DELETE patients" \in Range(runs'[i].stmts)
           /\ ~HasRow(patients', lastEvent.arg.pid))]_vars

\* What the code does instead: no row is ever removed, every id handed out
\* is still in the table.
C1_NoRowIsEverDeleted ==
    /\ Len(patients) = seq
    /\ ~Executed("DELETE patients")

C1_NoRowIsEverDeleted_Witness ==
    /\ lastEvent.type = "delete"
    /\ HasRow(patients, lastEvent.arg.pid)

\* C2: deletion is never a single click.  The DELETE statement is executed
\* only in handling an interaction that found the confirmation toggle set,
\* and pressing Delete with the toggle unset leaves every row in the table.
C2_DeleteNeedsConfirmation ==
    [][/\ (\E i \in 1..Len(runs') : "DELETE patients" \in Range(runs'[i].stmts))
            => confirm
       /\ (lastEvent'.type = "delete" /\ ~confirm) => patients' = patients]_vars

C2_Witness ==
    /\ lastEvent.type = "delete"
    /\ ~lastEvent.arg.checked
    /\ confirmShown
    /\ HasRow(patients, lastEvent.arg.pid)
    /\ Len(patients) = seq

\* C3: a second Create Patient with a phone number already stored is
\* rejected: one row keeps that phone, the error stays visible, no success
\* is reported, nothing reruns and the form keeps what was entered.
C3_DuplicatePhoneRejected ==
    (lastEvent.type = "create" /\ DbError \in Range(emitted))
    => /\ Cardinality({i \in 1..Len(patients) : patients[i].phone = lastEvent.arg.ph}) = 1
       /\ DbError \in Range(screen)
       /\ Msg("success", "Patient created!") \notin Range(emitted)
       /\ Len(runs) = 1
       /\ addForm = lastEvent.arg

\* The username is "admin" with nothing but whitespace before and after it
PaddedAdmin(u) ==
    \E a \in 0..Len(u) :
        /\ a + Len(Admin) <= Len(u)
        /\ \A k \in 1..Len(u) :
              IF k <= a \/ k > a + Len(Admin)
              THEN u[k] \in Whitespace
              ELSE u[k] = Admin[k - a]

InvalidCredentials == Msg("error", "Invalid credentials")

\* C4, as claimed: the pair ("admin", "admin123") logs in; every other pair
\* leaves logged_in false and shows an error.
C4_OnlyExactPairLogsIn ==
    lastEvent.type = "login"
    => IF lastEvent.arg = <<Admin, Admin123>>
       THEN logged_in
       ELSE ~logged_in /\ InvalidCredentials \in Range(screen)

\* C4, amended: a pair logs in exactly when its username is "admin" with
\* any leading and trailing whitespace and its password is exactly
\* "admin123"; every other pair leaves logged_in false and shows an error.
C4_LoginIffTrimmedPair ==
    lastEvent.type = "login"
    => IF PaddedAdmin(lastEvent.arg[1]) /\ lastEvent.arg[2] = Admin123
       THEN logged_in /\ InvalidCredentials \notin Range(emitted)
       ELSE ~logged_in /\ InvalidCredentials \in Range(screen)

C4_Witness ==
    /\ lastEvent.type = "login"
    /\ lastEvent.arg[1] # Admin
    /\ logged_in

\* While logged out an execution renders the login form and nothing else,
\* and executes nothing but init_db's CREATE TABLE IF NOT EXISTS.
GateHolds(rs) ==
    \A i \in 1..Len(rs) :
        /\ ~rs[i].start => rs[i].views = {"LoginForm"}
        /\ (~rs[i].start \/ ~rs[i].end) => Range(rs[i].stmts) \subseteq Range(InitDb)

\* C5: logged_in is false at session start, becomes true only through a
\* successful credential check and is false after Logout; an execution that
\* finds it false renders only the login form and executes no dashboard
\* query and no patient statement.
C5_SessionGate ==
    /\ ~logged_in /\ GateHolds(runs)
    /\ [][/\ (~logged_in /\ logged_in')
               => /\ lastEvent'.type = "login"
                  /\ PaddedAdmin(lastEvent'.arg[1])
                  /\ lastEvent'.arg[2] = Admin123
          /\ lastEvent'.type = "logout" => ~logged_in'
          /\ GateHolds(runs')]_vars

C5_Witness ==
    /\ lastEvent.type = "logout"
    /\ ~logged_in
    /\ patients # <<>>
    /\ LastRun.views = {"LoginForm"}

\* C6: logged in, the Doctors module and the Staff module render the list of
\* that table's rows, not the placeholder stub.
C6_DoctorsStaffRenderList ==
    (logged_in /\ page \in {"Doctors (full CRUD)", "Staff (full CRUD)"})
    => /\ "ResourceList" \in LastRun.views
       /\ "Placeholder" \notin LastRun.views

\* Two characters equal up to ASCII case
SameLetter(c, d) ==
    c = d \/ \E i \in 1..26 : {c, d} = {UpperAlpha[i], LowerAlpha[i]}

\* needle occurs in hay, up to ASCII case
Contains(hay, needle) ==
    \E a \in 0..Len(hay) :
        /\ a + Len(needle) <= Len(hay)
        /\ \A k \in 1..Len(needle) : SameLetter(hay[a + k], needle[k])

NoWildcard(s) == \A k \in 1..Len(s) : s[k] \notin {"%", "_"}

Searching == OnPatients /\ Truthy(search)

\* C7, as claimed: a search by a non-empty s lists exactly the patients
\* whose phone contains s, up to case.
C7_SearchListsExactlyPhoneMatches ==
    Searching
    => Range(listing) = {patients[i] : i \in {j \in 1..Len(patients) :
                                                Contains(patients[j].phone, search)}}

\* s occurs in hay when % in s stands for any run of characters, _ for any
\* one character and a letter for itself up to ASCII case: pos places every
\* other character of s on a character of hay, neighbours side by side and
\* the rest in order.
WildContains(hay, s) ==
    \E pos \in [1..Len(s) -> 0..Len(hay)] :
        \A k \in 1..Len(s) :
            IF s[k] = "%" THEN pos[k] = 0
            ELSE /\ pos[k] >= 1
                 /\ s[k] = "_" \/ SameLetter(hay[pos[k]], s[k])
                 /\ \A j \in 1..(k - 1) : s[j] # "%" => pos[j] < pos[k]
                 /\ (k > 1 /\ s[k - 1] # "%") => pos[k] = pos[k - 1] + 1

\* C7, amended: a search by a non-empty s lists exactly the patients whose
\* first name, last name or phone contains s, where letters compare up to
\* ASCII case and a % or _ typed into s is a LIKE wildcard; so it lists every
\* patient whose phone contains s, and every patient whose name does.
C7_SearchListsContaining ==
    Searching
    => /\ Range(listing) =
              {patients[i] : i \in {j \in 1..Len(patients) :
                                      \/ WildContains(patients[j].first_name, search)
                                      \/ WildContains(patients[j].last_name, search)
                                      \/ WildContains(patients[j].phone, search)}}
       /\ \A i \in 1..Len(patients) :
              (\/ Contains(patients[i].first_name, search)
               \/ Contains(patients[i].last_name, search)
               \/ Contains(patients[i].phone, search))
              => patients[i] \in Range(listing)
       /\ NoWildcard(search)
              => \A i \in 1..Len(listing) :
                    \/ Contains(listing[i].first_name, search)
                    \/ Contains(listing[i].last_name, search)
                    \/ Contains(listing[i].phone, search)

C7_Witness ==
    /\ Searching
    /\ NoWildcard(search)
    /\ \E i \in 1..Len(listing) : ~Contains(listing[i].phone, search)
    /\ \E i \in 1..Len(patients) : patients[i] \notin Range(listing)

\* The fields of the edit form whose widget the user changed
Edited(p, e) ==
    {f \in {"first_name", "last_name", "phone", "gender", "blood_type"} :
        \/ f = "first_name" /\ e.fn # p.first_name
        \/ f = "last_name"  /\ e.ln # p.last_name
        \/ f = "phone"      /\ e.ph # p.phone
        \/ f = "gender"     /\ e.g # GenderDefault(p.gender)
        \/ f = "blood_type" /\ e.b # BloodDefault(p.blood_type)}

\* C8: an Update pressed after changing exactly one field of the edit form
\* stores the new value in that field and leaves every other stored field,
\* gender, blood_type, id and created_at included, as it was.
C8_UpdateChangesOnlyEdited ==
    [][(/\ lastEvent'.type = "update"
        /\ EditFormShown
        /\ Cardinality(Edited(RowOf(patients, PidOf(patients, choice)), lastEvent'.arg)) = 1)
       => LET pid    == PidOf(patients, choice)
              before == RowOf(patients, pid)
              e      == lastEvent'.arg
              f      == CHOOSE x \in Edited(before, e) : TRUE
              want   ==
                  [before EXCEPT
                     !.first_name = IF f = "first_name" THEN e.fn ELSE @,
                     !.last_name  = IF f = "last_name"  THEN e.ln ELSE @,
                     !.phone      = IF f = "phone"      THEN e.ph ELSE @,
                     !.gender     = IF f = "gender"     THEN e.g  ELSE @,
                     !.blood_type = IF f = "blood_type" THEN e.b  ELSE @]
          IN  HasRow(patients', pid) /\ RowOf(patients', pid) = want]_vars

\* C9: with any row the Add form can create selected, Edit / Delete mode
\* renders the edit form and no execution ends in an uncaught exception.
C9_EditFormRenders ==
    (OnPatients /\ mode = "Edit / Delete" /\ patients # <<>>)
    => /\ LastRun.exception = "none"
       /\ "EditForm" \in LastRun.views

\* C10: every stored patient has a non-empty first_name, last_name and
\* phone; a Create or Update that would store an empty one executes no
\* statement.
C10_RequiredFieldsPopulated ==
    /\ \A i \in 1..Len(patients) :
          /\ Truthy(patients[i].first_name)
          /\ Truthy(patients[i].last_name)
          /\ Truthy(patients[i].phone)
    /\ (lastEvent.type = "create" /\ ~RequiredFilled(lastEvent.arg))
          => ~Executed("INSERT patients")
    /\ (lastEvent.type = "update" /\ ~RequiredFilled(lastEvent.arg))
          => ~Executed("UPDATE patients")

====
